---- MODULE Spec2Model ----
(***************************************************************************)
(* The client-side upload queue (UploadQueueService, services/uploadQueue) *)
(* as a state machine.                                                     *)
(*                                                                         *)
(* JavaScript runs every task to completion on one thread, so one action   *)
(* of this model is one task together with the microtasks it queues: a     *)
(* public method called by the UI (with the synchronous prefix of every    *)
(* async function it calls), the expiry of the scheduler's 100 ms timer    *)
(* (with the loop pass that follows it), or the settlement of one upload   *)
(* call (the continuation of processJob after its await, followed by the   *)
(* .finally callback that releases the slot).                              *)
(***************************************************************************)
EXTENDS Integers, Sequences, FiniteSets, TLC

VARIABLES
    queue,          \* this.queue: the job list, in insertion order
    isProcessing,   \* this.isProcessing: a scheduler loop is active (asleep on its timer between tasks)
    activeUploads,  \* this.activeUploads: occupied concurrency slots
    inFlight,       \* per job id, the number of processJob calls awaiting wardrobeAPI.addItem
    nextId,         \* the next fresh job id (ids are Date.now() plus a random suffix: unique)
    revoked,        \* per preview handle, how often URL.revokeObjectURL was called on it
    loops,          \* the processQueue invocations that are inside the loop (asleep on their timer)
    listeners,      \* this.listeners: the subscribed callbacks
    notified,       \* the snapshot notify() built most recently (the empty list before the first)
    received,       \* per listener, the snapshots it was called with during the last task, in order
    emitted,        \* the snapshots notify() delivered during the last task, in order
    started,        \* the job ids the scheduler picked during the last task, in order
    logged,         \* the job ids console.error was called for during the last task, in order
    heap,           \* when on: the arrays and job objects in memory, and the snapshots handed out
    zone,           \* WardrobeUploadZone: mounted, its jobs state, the job list of its last render,
                    \* lastCompletedCountRef.current, and whether the refresh timeout is pending
    client,         \* the API client: isRefreshing, failedQueue, the refresh call, the stored
                    \* refresh token, the pending navigation to /login, and each request
    audit,          \* when on: per job id, the upload calls issued and the retryJob calls made on it while failed
    lastOp          \* the last task: its name, the job id (for subscribe and unsubscribe, the
                    \* listener) it was about (0 if none) and that job's status when the task
                    \* began ("absent" if not in the queue)

vars == <<queue, isProcessing, activeUploads, inFlight, nextId, revoked, loops, listeners,
          notified, received, emitted, started, logged, heap,
          zone, client, audit, lastOp>>

\* Everything but the API client.
appVars == <<queue, isProcessing, activeUploads, inFlight, nextId, revoked, loops, listeners,
             notified, received, emitted, started, logged, heap, zone, audit, lastOp>>

\* ---------------------------------------------------------------- bounds
MaxJobs == 3
MaxBatch == 2
MaxIntake == 2
MaxRetries == 2
MaxHeapSteps == 5
MaxRequests == 3

\* ---------------------------------------------------------------- constants
concurrency == 2
MaxFileSize == 10 * 1024 * 1024

JobIds == 1..MaxJobs
Listeners == {1, 2}
Undefined == "undefined"

\* ---------------------------------------------------------------- inputs
ImagePrefix == <<"i", "m", "a", "g", "e", "/">>
PngType == ImagePrefix \o <<"p", "n", "g">>

Files ==
    { [type |-> PngType, size |-> MaxFileSize],
      [type |-> PngType, size |-> MaxFileSize + 1] }

Batches == UNION { [1..n -> Files] : n \in 0..MaxBatch }

\* Files of every kind the filter of addFiles tells apart: an empty image, images at
\* and one byte over the size limit, a file that is not an image, a file of unknown type.
TextType == <<"t", "e", "x", "t", "/", "p", "l", "a", "i", "n">>
WideFiles ==
    Files \cup { [type |-> PngType,  size |-> 0],
                 [type |-> TextType, size |-> 0],
                 [type |-> <<>>,     size |-> MaxFileSize] }

WideBatches == UNION { [1..n -> WideFiles] : n \in 0..MaxBatch }

\* What the endpoint answers: response.data, here with the resource id under _id.
Responses ==
    { [hasData |-> TRUE, _id |-> "itm-a", id |-> Undefined] }

\* What a rejected call carries: error.response?.data?.message and error.message, here
\* a transport error without a response.
Errors ==
    { [responseMessage |-> Undefined, message |-> "Network Error"] }

\* Every shape of answer processJob tells apart: the id under _id, the id under id, and
\* an answer without a body.
WideResponses ==
    Responses \cup { [hasData |-> TRUE,  _id |-> Undefined, id |-> "itm-b"],
                     [hasData |-> FALSE, _id |-> Undefined, id |-> Undefined] }

\* Every shape of rejection processJob tells apart: a response body with a message, a
\* transport error only, neither, and both present but empty.
WideErrors ==
    Errors \cup { [responseMessage |-> "Invalid image",
                   message |-> "Request failed with status code 400"],
                  [responseMessage |-> Undefined, message |-> Undefined],
                  [responseMessage |-> "", message |-> ""] }

\* ---------------------------------------------------------------- helpers
Truthy(v) == v # Undefined /\ v # ""

startsWith(str, prefix) ==
    /\ Len(str) >= Len(prefix)
    /\ SubSeq(str, 1, Len(prefix)) = prefix

\* Mutant: a file of exactly the maximum size is dropped.
isValidFileBelowLimit(file) ==
    /\ startsWith(file.type, ImagePrefix)
    /\ ~(file.size >= MaxFileSize)

\* The filter of addFiles.
isValidFile(file) ==
    /\ startsWith(file.type, ImagePrefix)
    /\ ~(file.size > MaxFileSize)

\* { ...job, ...updates }
Spread(job, updates) ==
    [f \in DOMAIN job |-> IF f \in DOMAIN updates THEN updates[f] ELSE job[f]]

\* queue.findIndex(job => job.id === id), 0 for -1
findIndex(q, id) ==
    IF \E i \in 1..Len(q) : q[i].id = id
    THEN CHOOSE i \in 1..Len(q) : q[i].id = id /\ \A j \in 1..(i - 1) : q[j].id # id
    ELSE 0

hasPendingJobs(q) == \E i \in 1..Len(q) : q[i].status = "pending"

\* Mutant: the latest pending job is taken (findLast).
getLastPendingJob(q) ==
    CHOOSE i \in 1..Len(q) :
        /\ q[i].status = "pending"
        /\ \A j \in (i + 1)..Len(q) : q[j].status # "pending"

\* queue.find(job => job.status === 'pending'), as an index
getNextPendingJob(q) ==
    CHOOSE i \in 1..Len(q) :
        /\ q[i].status = "pending"
        /\ \A j \in 1..(i - 1) : q[j].status # "pending"

\* ---------------------------------------------------------------- the service, on a state record
\* F(v), with v evaluated once and then shared by every use F makes of it.
Strict(v, F(_)) == CHOOSE r \in {F(x) : x \in {v}} : TRUE

cur ==
    [ queue |-> queue, isProcessing |-> isProcessing, activeUploads |-> activeUploads,
      inFlight |-> inFlight, nextId |-> nextId, revoked |-> revoked, loops |-> loops,
      listeners |-> listeners, notified |-> notified,
      received |-> [l \in Listeners |-> <<>>], emitted |-> <<>>, started |-> <<>>,
      logged |-> <<>>, writes |-> <<>> ]

\* Mutant: only the first listener of the set is called.
notifyFirstOnly(s0) ==
    Strict(s0, LAMBDA s :
        [s EXCEPT !.emitted = Append(@, s.queue),
                  !.notified = s.queue,
                  !.received = [l \in Listeners |->
                                  IF l \in s.listeners /\ \A k \in s.listeners : l <= k
                                  THEN Append(@[l], s.queue) ELSE @[l]]])

\* const snapshot = [...this.queue]; this.listeners.forEach(listener => listener(snapshot))
notify(s0) ==
    Strict(s0, LAMBDA s :
        [s EXCEPT !.emitted = Append(@, s.queue),
                  !.writes = Append(@, [kind |-> "copy"]),
                  !.notified = s.queue,
                  !.received = [l \in Listeners |->
                                  IF l \in s.listeners THEN Append(@[l], s.queue) ELSE @[l]]])

\* listeners.add(listener); listener([...this.queue])
subscribe(s0, l) ==
    Strict(s0, LAMBDA s :
        [s EXCEPT !.listeners = @ \cup {l}, !.received[l] = Append(@, s.queue),
                  !.writes = Append(@, [kind |-> "copy"])])

\* The handle subscribe returns: () => this.listeners.delete(listener)
unsubscribe(s, l) == [s EXCEPT !.listeners = @ \ {l}]

\* Mutant: subscribers are notified even when no job has the id.
updateJobAlwaysNotifies(s0, id, updates) ==
    Strict(s0, LAMBDA s :
        LET index == findIndex(s.queue, id) IN
        IF index # 0
        THEN notify([s EXCEPT !.queue[index] = Spread(@, updates)])
        ELSE notify(s))

updateJob(s0, id, updates) ==
    Strict(s0, LAMBDA s :
        LET index == findIndex(s.queue, id) IN
        IF index # 0
        THEN notify([s EXCEPT !.queue[index] = Spread(@, updates),
                              !.writes = Append(@, [kind |-> "set", index |-> index,
                                                    updates |-> updates])])
        ELSE s)

\* processJob up to its await: two updates, then the upload call is issued.
processJobBegin(s, id) ==
    LET s1 == updateJob(s, id, [status |-> "uploading", progress |-> 10])
        s2 == updateJob(s1, id, [progress |-> 30])
    IN [s2 EXCEPT !.inFlight[id] = @ + 1, !.started = Append(@, id)]

\* Mutant: the inner while tests activeUploads <= concurrency.
RECURSIVE startUploadsOffByOne(_)
startUploadsOffByOne(s0) ==
    Strict(s0, LAMBDA s :
        IF s.activeUploads <= concurrency /\ hasPendingJobs(s.queue)
        THEN Strict(s.queue[getNextPendingJob(s.queue)], LAMBDA job :
                 startUploadsOffByOne(
                     processJobBegin([s EXCEPT !.activeUploads = @ + 1], job.id)))
        ELSE s)

\* The inner while of processQueue.
RECURSIVE startUploads(_)
startUploads(s0) ==
    Strict(s0, LAMBDA s :
        IF s.activeUploads < concurrency /\ hasPendingJobs(s.queue)
        THEN Strict(s.queue[getNextPendingJob(s.queue)], LAMBDA job :
                 startUploads(processJobBegin([s EXCEPT !.activeUploads = @ + 1], job.id)))
        ELSE s)

\* Mutant: the loop goes on for as long as the queue holds any job.
loopPassWhileJobs(s0) ==
    Strict(s0, LAMBDA s :
        IF s.queue # <<>> \/ s.activeUploads > 0
        THEN startUploads(s)
        ELSE [s EXCEPT !.isProcessing = FALSE, !.loops = @ - 1])

\* One evaluation of the outer while of processQueue: a pass and a sleep, or the exit.
loopPass(s0) ==
    Strict(s0, LAMBDA s :
        IF hasPendingJobs(s.queue) \/ s.activeUploads > 0
        THEN startUploads(s)
        ELSE [s EXCEPT !.isProcessing = FALSE, !.loops = @ - 1])

\* Mutant: no test of isProcessing, every call enters the loop.
processQueueNoGuard(s0) ==
    Strict(s0, LAMBDA s : loopPass([s EXCEPT !.isProcessing = TRUE, !.loops = @ + 1]))

processQueue(s0) ==
    Strict(s0, LAMBDA s :
        IF s.isProcessing
        THEN s
        ELSE loopPass([s EXCEPT !.isProcessing = TRUE, !.loops = @ + 1]))

\* Mutant: addFiles does not trigger the scheduler.
addFilesNoTrigger(s0, files) ==
    Strict(s0, LAMBDA s : Strict(SelectSeq(files, isValidFile), LAMBDA validFiles :
        LET newJobs == [k \in 1..Len(validFiles) |->
                          [ id |-> s.nextId + k - 1, file |-> validFiles[k],
                            status |-> "pending", progress |-> 0, error |-> Undefined,
                            itemId |-> Undefined, preview |-> s.nextId + k - 1 ]]
            s1 == [s EXCEPT !.queue = @ \o newJobs, !.nextId = @ + Len(validFiles)]
        IN notify(s1)))

addFiles(s0, files) ==
    Strict(s0, LAMBDA s : Strict(SelectSeq(files, isValidFile), LAMBDA validFiles :
        LET newJobs == [k \in 1..Len(validFiles) |->
                          [ id |-> s.nextId + k - 1, file |-> validFiles[k],
                            status |-> "pending", progress |-> 0, error |-> Undefined,
                            itemId |-> Undefined, preview |-> s.nextId + k - 1 ]]
            s1 == [s EXCEPT !.queue = @ \o newJobs, !.nextId = @ + Len(validFiles),
                            !.writes = Append(@, [kind |-> "push", jobs |-> newJobs])]
        IN processQueue(notify(s1))))

\* Mutant: retryJob does not trigger the scheduler.
retryJobNoTrigger(s, id) ==
    updateJob(s, id, [status |-> "pending", progress |-> 0, error |-> Undefined])

\* Mutant: the retried job keeps the progress it failed at.
retryJobKeepsProgress(s, id) ==
    processQueue(updateJob(s, id, [status |-> "pending", error |-> Undefined]))

retryJob(s, id) ==
    processQueue(updateJob(s, id, [status |-> "pending", progress |-> 0, error |-> Undefined]))

\* Mutant: removing a job whose call is in flight gives its slot back at once.
removeJobFreesSlot(s0, id) ==
    Strict(s0, LAMBDA s :
        LET index == findIndex(s.queue, id)
            s1 == IF index # 0
                  THEN [s EXCEPT !.revoked[s.queue[index].preview] = @ + 1,
                                 !.activeUploads = @ - s.inFlight[id]]
                  ELSE s
        IN notify([s1 EXCEPT !.queue = SelectSeq(@, LAMBDA job : job.id # id)]))

\* Mutant: the job is removed without telling the subscribers.
removeJobSilent(s0, id) ==
    Strict(s0, LAMBDA s :
        LET index == findIndex(s.queue, id)
            s1 == IF index # 0
                  THEN [s EXCEPT !.revoked[s.queue[index].preview] = @ + 1]
                  ELSE s
        IN [s1 EXCEPT !.queue = SelectSeq(@, LAMBDA job : job.id # id)])

\* A preview handle is a non-empty blob URL (here the number of the job it was made
\* for), so the test job?.preview is the test that the job was found.
removeJob(s0, id) ==
    Strict(s0, LAMBDA s :
        LET index == findIndex(s.queue, id)
            s1 == IF index # 0
                  THEN [s EXCEPT !.revoked[s.queue[index].preview] = @ + 1]
                  ELSE s
        IN notify([s1 EXCEPT !.queue = SelectSeq(@, LAMBDA job : job.id # id),
                             !.writes = Append(@, [kind |-> "filterId", id |-> id])]))

RECURSIVE revokeAll(_, _)
revokeAll(rev, jobs) ==
    IF jobs = <<>>
    THEN rev
    ELSE revokeAll([rev EXCEPT ![Head(jobs).preview] = @ + 1], Tail(jobs))

\* Mutant: the handles of all jobs are revoked, not only of the completed ones.
clearCompletedRevokesAll(s0) ==
    Strict(s0, LAMBDA s :
        LET s1 == [s EXCEPT !.revoked = revokeAll(@, s.queue)]
        IN notify([s1 EXCEPT !.queue = SelectSeq(@, LAMBDA job : job.status # "completed")]))

\* Mutant: failed jobs are dropped from the queue as well.
clearCompletedAndFailed(s0) ==
    Strict(s0, LAMBDA s :
        LET done == SelectSeq(s.queue, LAMBDA job : job.status = "completed")
            s1 == [s EXCEPT !.revoked = revokeAll(@, done)]
        IN notify([s1 EXCEPT !.queue =
                      SelectSeq(@, LAMBDA job : job.status \notin {"completed", "failed"})]))

clearCompleted(s0) ==
    Strict(s0, LAMBDA s :
        LET done == SelectSeq(s.queue, LAMBDA job : job.status = "completed")
            s1 == [s EXCEPT !.revoked = revokeAll(@, done)]
        IN notify([s1 EXCEPT !.queue = SelectSeq(@, LAMBDA job : job.status # "completed"),
                             !.writes = Append(@, [kind |-> "filterCompleted"])]))

\* getQueue(): return [...this.queue]
getQueue(s) == [s EXCEPT !.writes = Append(@, [kind |-> "copy"])]

\* Mutant: a job that is processing is not counted as uploading.
getStatsUploadingOnly(q) ==
    [pending   |-> Len(SelectSeq(q, LAMBDA j : j.status = "pending")),
     uploading |-> Len(SelectSeq(q, LAMBDA j : j.status = "uploading")),
     completed |-> Len(SelectSeq(q, LAMBDA j : j.status = "completed")),
     failed    |-> Len(SelectSeq(q, LAMBDA j : j.status = "failed"))]

\* getStats() when this.queue is q.
getStats(q) ==
    [pending   |-> Len(SelectSeq(q, LAMBDA j : j.status = "pending")),
     uploading |-> Len(SelectSeq(q, LAMBDA j : j.status = "uploading" \/ j.status = "processing")),
     completed |-> Len(SelectSeq(q, LAMBDA j : j.status = "completed")),
     failed    |-> Len(SelectSeq(q, LAMBDA j : j.status = "failed"))]

\* response.data?._id || response.data?.id
itemIdOf(response) ==
    IF response.hasData /\ Truthy(response._id) THEN response._id
    ELSE IF response.hasData THEN response.id
    ELSE Undefined

\* Mutant: the transport error text is preferred to the message of the response body.
errorMessageTransportFirst(error) ==
    IF Truthy(error.message) THEN error.message
    ELSE IF Truthy(error.responseMessage) THEN error.responseMessage
    ELSE "Upload failed"

\* error.response?.data?.message || error.message || 'Upload failed'
errorMessage(error) ==
    IF Truthy(error.responseMessage) THEN error.responseMessage
    ELSE IF Truthy(error.message) THEN error.message
    ELSE "Upload failed"

\* .finally(() => { this.activeUploads--; }) of the call's promise
releaseSlot(s, id) ==
    [s EXCEPT !.activeUploads = @ - 1, !.inFlight[id] = @ - 1]

\* Mutant: a job that completed is taken out of the queue at once.
processJobResolvedDropsJob(s, id, response) ==
    LET s1 == updateJob(s, id, [status |-> "processing", progress |-> 70,
                                itemId |-> itemIdOf(response)])
        s2 == updateJob(s1, id, [status |-> "completed", progress |-> 100])
    IN notify([s2 EXCEPT !.queue = SelectSeq(@, LAMBDA job : job.id # id)])

\* Mutant: the job is completed without passing through processing.
processJobResolvedSkipsProcessing(s, id, response) ==
    updateJob(s, id, [status |-> "completed", progress |-> 100,
                      itemId |-> itemIdOf(response)])

\* processJob after its await, the call having resolved
processJobResolved(s, id, response) ==
    LET s1 == updateJob(s, id, [status |-> "processing", progress |-> 70,
                                itemId |-> itemIdOf(response)])
    IN updateJob(s1, id, [status |-> "completed", progress |-> 100])

\* Mutant: the rejection escapes processJob and ends the scheduler loop.
processJobRejectedEndsLoop(s, id, error) ==
    [updateJob(s, id, [status |-> "failed", error |-> errorMessage(error)])
        EXCEPT !.isProcessing = FALSE]

\* Mutant: a failure resets the progress of the job.
processJobRejectedResetsProgress(s, id, error) ==
    updateJob(s, id, [status |-> "failed", progress |-> 0, error |-> errorMessage(error)])

\* processJob's catch, the call having rejected
processJobRejected(s, id, error) ==
    updateJob([s EXCEPT !.logged = Append(@, id)], id,
              [status |-> "failed", error |-> errorMessage(error)])

\* ---------------------------------------------------------------- memory
\* The service's writes at the level of objects: h.arrays[r] is the array with
\* reference r (a sequence of job references), h.jobs[j] the job object with reference
\* j, h.queueRef the array this.queue points to, and h.held the arrays handed out as
\* snapshots, each with the job list it showed when handed out.

\* The job list an array shows.
Deref(h, r) == [i \in 1..Len(h.arrays[r]) |-> h.jobs[h.arrays[r][i]]]

\* this.queue.push(...newJobs): the new job objects are appended to the array in place.
heapPush(h, newJobs) ==
    [h EXCEPT !.jobs = @ \o newJobs,
              !.arrays[h.queueRef] =
                  @ \o [k \in 1..Len(newJobs) |-> Len(h.jobs) + k]]

\* Mutant: Object.assign(this.queue[index], updates), the job object is written in place.
heapSetInPlace(h, index, updates) ==
    [h EXCEPT !.jobs[h.arrays[h.queueRef][index]] = Spread(@, updates)]

\* this.queue[index] = { ...this.queue[index], ...updates }: a new job object is put in
\* the slot of the array.
heapSet(h, index, updates) ==
    [h EXCEPT !.jobs = Append(@, Spread(h.jobs[h.arrays[h.queueRef][index]], updates)),
              !.arrays[h.queueRef][index] = Len(h.jobs) + 1]

\* this.queue = this.queue.filter(...): a new array with the kept job objects; kept are
\* the places of the old array whose job passes the test.
heapFilter(h, kept) ==
    [h EXCEPT !.arrays = Append(@, [k \in 1..Len(kept) |-> h.arrays[h.queueRef][kept[k]]]),
              !.queueRef = Len(h.arrays) + 1]

\* The places of the queue, in order, whose job is not the one with this id.
PlacesNotId(h, id) ==
    LET q == Deref(h, h.queueRef)
    IN  SelectSeq([i \in 1..Len(q) |-> i], LAMBDA i : q[i].id # id)

\* The places of the queue, in order, whose job is not completed.
PlacesNotCompleted(h) ==
    LET q == Deref(h, h.queueRef)
    IN  SelectSeq([i \in 1..Len(q) |-> i], LAMBDA i : q[i].status # "completed")

\* [...this.queue]: a new array with the same job objects, handed out.
heapCopy(h) ==
    [h EXCEPT !.arrays = Append(@, h.arrays[h.queueRef]),
              !.held = Append(@, [ref |-> Len(h.arrays) + 1, seen |-> Deref(h, h.queueRef)])]

heapWrite(h0, w) ==
    Strict(h0, LAMBDA h :
        CASE w.kind = "push" -> heapPush(h, w.jobs)
          [] w.kind = "set" -> heapSet(h, w.index, w.updates)
          [] w.kind = "filterId" -> heapFilter(h, PlacesNotId(h, w.id))
          [] w.kind = "filterCompleted" -> heapFilter(h, PlacesNotCompleted(h))
          [] w.kind = "copy" -> heapCopy(h))

\* The memory after the writes of a task, in the order they were made.
RECURSIVE Replay(_, _)
Replay(h, writes) ==
    IF writes = <<>> THEN h ELSE Replay(heapWrite(h, Head(writes)), Tail(writes))

\* The memory after construction: this.queue is an empty array.
NoHeap(on) ==
    [on |-> on, arrays |-> << <<>> >>, jobs |-> <<>>, queueRef |-> 1, held |-> <<>>,
     steps |-> 0]

\* ---------------------------------------------------------------- WardrobeUploadZone
\* The component before it is mounted: useState([]), useRef(0), useRef(null).
NoZone ==
    [mounted |-> FALSE, jobs |-> <<>>, rendered |-> <<>>, last |-> 0, timer |-> FALSE]

completedCount(jobs) == Len(SelectSeq(jobs, LAMBDA j : j.status = "completed"))

\* The listener the component subscribes: setJobs, then debouncedRefresh() when the
\* completed count is above the watermark (the pending timeout is replaced).
zoneListener(z, updatedJobs) ==
    IF completedCount(updatedJobs) > z.last
    THEN [z EXCEPT !.jobs = updatedJobs, !.last = completedCount(updatedJobs),
                   !.timer = TRUE]
    ELSE [z EXCEPT !.jobs = updatedJobs]

RECURSIVE zoneListenerAll(_, _)
zoneListenerAll(z, snapshots) ==
    IF snapshots = <<>> THEN z
    ELSE zoneListenerAll(zoneListener(z, Head(snapshots)), Tail(snapshots))

\* The component after a task: its listener has run on every snapshot notified, and
\*  - mount: the effect subscribes, so the listener runs on the current job list;
\*  - unmount: the cleanup unsubscribes and clears the timeout;
\*  - a click or drop handled by the component: React renders before the next event
\*    (after the Clear completed button the watermark is set to 0);
\*  - render: the rows show the jobs state;
\*  - refresh: the timeout has expired and called onUploadComplete.
zoneAfter(z0, snapshots, op, q) ==
    Strict(z0, LAMBDA z :
        IF op.name = "mount" THEN zoneListener([NoZone EXCEPT !.mounted = TRUE], q)
        ELSE IF ~z.mounted THEN z
        ELSE IF op.name = "unmount" THEN NoZone
        ELSE Strict(zoneListenerAll(z, snapshots), LAMBDA z1 :
            IF op.name = "clickClear" THEN [z1 EXCEPT !.last = 0, !.rendered = z1.jobs]
            ELSE IF op.name \in {"clickRemove", "clickRetry", "dropFiles", "render"}
                 THEN [z1 EXCEPT !.rendered = z1.jobs]
            ELSE IF op.name = "refresh" THEN [z1 EXCEPT !.timer = FALSE]
            ELSE z1))

\* ---------------------------------------------------------------- API client
Requests == 1..MaxRequests

\* The module after the page has loaded: isRefreshing = false, failedQueue = [], no
\* request made. A request is idle, sent, parked (its promise is in failedQueue),
\* refreshing (its handler awaits the refresh call), done or failed; retry is the
\* _retry flag of its config.
NoClient(hasRefreshToken) ==
    [isRefreshing |-> FALSE, failedQueue |-> <<>>, refresh |-> "none",
     hasRefreshToken |-> hasRefreshToken, navigating |-> FALSE,
     st |-> [r \in Requests |-> "idle"], retry |-> [r \in Requests |-> FALSE]]

Parked(c) == {c.failedQueue[k] : k \in 1..Len(c.failedQueue)}

\* processQueue(error, token) of the API client: every parked promise is rejected, or
\* resolved (its then-handler sends the request again), and failedQueue is emptied.
processFailedQueue(c, error) ==
    [c EXCEPT !.st = [r \in Requests |->
                        IF r \in Parked(c) THEN (IF error THEN "failed" ELSE "sent")
                        ELSE @[r]],
              !.failedQueue = <<>>]

\* The response interceptor's error handler for a 401 answer to request r, up to its
\* first await or return.
on401(c, r) ==
    IF ~c.retry[r]
    THEN IF c.isRefreshing
         THEN [c EXCEPT !.failedQueue = Append(@, r), !.st[r] = "parked"]
         ELSE IF ~c.hasRefreshToken
              THEN [c EXCEPT !.retry[r] = TRUE, !.isRefreshing = TRUE,
                             !.navigating = TRUE, !.st[r] = "failed"]
              ELSE [c EXCEPT !.retry[r] = TRUE, !.isRefreshing = TRUE,
                             !.refresh = "inFlight", !.st[r] = "refreshing"]
    ELSE [c EXCEPT !.st[r] = "failed"]

\* The handler after its await, the refresh call having resolved: tokens stored, parked
\* requests released, the request sent again, finally isRefreshing = false.
refreshResolved(c) ==
    [processFailedQueue(c, FALSE) EXCEPT
        !.st = [r \in Requests |-> IF c.st[r] = "refreshing" THEN "sent" ELSE @[r]],
        !.refresh = "none", !.isRefreshing = FALSE]

\* The handler's catch: parked requests rejected, tokens removed, navigation to /login,
\* the request rejected, finally isRefreshing = false.
refreshRejected(c) ==
    [processFailedQueue(c, TRUE) EXCEPT
        !.st = [r \in Requests |-> IF c.st[r] = "refreshing" THEN "failed" ELSE @[r]],
        !.hasRefreshToken = FALSE, !.navigating = TRUE,
        !.refresh = "none", !.isRefreshing = FALSE]

\* ---------------------------------------------------------------- actions
statusOf(q, id) ==
    IF findIndex(q, id) = 0 THEN "absent" ELSE q[findIndex(q, id)].status

Op(name, id) == [name |-> name, id |-> id, was |-> statusOf(queue, id)]

\* How often id occurs in a sequence of ids.
Occurrences(seq, id) == Cardinality({k \in 1..Len(seq) : seq[k] = id})

\* The counts after a task that started the calls in picked and was the command op.
Tally(picked, op) ==
    IF ~audit.on THEN audit
    ELSE [audit EXCEPT
            !.calls   = [id \in JobIds |-> @[id] + Occurrences(picked, id)],
            !.retries = [id \in JobIds |->
                           IF op.name = "retryJob" /\ op.id = id /\ op.was = "failed"
                           THEN @[id] + 1 ELSE @[id]],
            !.commands = IF op.name = "retryJob" THEN @ + 1 ELSE @]

Commit(s0, op) ==
    \E s \in {s0} :
    /\ queue' = s.queue
    /\ isProcessing' = s.isProcessing
    /\ activeUploads' = s.activeUploads
    /\ inFlight' = s.inFlight
    /\ nextId' = s.nextId
    /\ revoked' = s.revoked
    /\ loops' = s.loops
    /\ listeners' = s.listeners
    /\ notified' = s.notified
    /\ received' = s.received
    /\ emitted' = s.emitted
    /\ started' = s.started
    /\ logged' = s.logged
    /\ audit' = Tally(s.started, op)
    /\ client' = client
    /\ zone' = zoneAfter(zone, s.emitted, op, s.queue)
    /\ heap' = IF heap.on THEN [Replay(heap, s.writes) EXCEPT !.steps = @ + 1] ELSE heap
    /\ lastOp' = op

\* Nothing counted yet; on tells whether counting takes place.
NoCounts(on) ==
    [on |-> on, calls |-> [id \in JobIds |-> 0], retries |-> [id \in JobIds |-> 0],
     commands |-> 0]

\* The service after construction.
InitService ==
    /\ queue = <<>>
    /\ isProcessing = FALSE
    /\ activeUploads = 0
    /\ inFlight = [id \in JobIds |-> 0]
    /\ nextId = 1
    /\ revoked = [id \in JobIds |-> 0]
    /\ loops = 0
    /\ listeners = {}
    /\ notified = <<>>
    /\ received = [l \in Listeners |-> <<>>]
    /\ emitted = <<>>
    /\ started = <<>>
    /\ logged = <<>>
    /\ lastOp = [name |-> "init", id |-> 0, was |-> "absent"]

Init ==
    /\ InitService
    /\ audit = NoCounts(FALSE)
    /\ heap = NoHeap(FALSE)
    /\ zone = NoZone
    /\ client = NoClient(FALSE)

\* At most MaxJobs jobs are ever created.
AddFiles(files) ==
    /\ nextId + Len(SelectSeq(files, isValidFile)) - 1 <= MaxJobs
    /\ Commit(addFiles(cur, files), Op("addFiles", 0))

\* The UI names only ids it was shown in a snapshot: ids that addFiles has minted.
RetryJob(id) ==
    /\ id < nextId
    /\ Commit(retryJob(cur, id), Op("retryJob", id))

RemoveJob(id) ==
    /\ id < nextId
    /\ Commit(removeJob(cur, id), Op("removeJob", id))

\* The record of the call tells whether a completed job was there to clear.
ClearCompleted ==
    Commit(clearCompleted(cur),
           [name |-> "clearCompleted", id |-> 0,
            was  |-> IF \E i \in 1..Len(queue) : queue[i].status = "completed"
                     THEN "completed" ELSE "absent"])

\* The setTimeout(resolve, 100) of a loop expires and that loop goes round.
TimerFires ==
    /\ loops > 0
    /\ Commit(loopPass(cur), Op("timer", 0))

UploadResolves(id, response) ==
    /\ inFlight[id] > 0
    /\ Commit(releaseSlot(processJobResolved(cur, id, response), id),
              Op("resolved", id))

UploadRejects(id, error) ==
    /\ inFlight[id] > 0
    /\ Commit(releaseSlot(processJobRejected(cur, id, error), id),
              Op("rejected", id))

UploadSettles(id) ==
    \/ \E response \in Responses : UploadResolves(id, response)
    \/ \E error \in Errors : UploadRejects(id, error)

Next ==
    \/ \E files \in Batches : AddFiles(files)
    \/ \E id \in JobIds : RetryJob(id)
    \/ \E id \in JobIds : RemoveJob(id)
    \/ ClearCompleted
    \/ TimerFires
    \/ \E id \in JobIds : UploadSettles(id)

Spec == Init /\ [][Next]_vars

Subscribe(l) ==
    Commit(subscribe(cur, l), [name |-> "subscribe", id |-> l, was |-> "absent"])

\* The handle of a subscribed listener is called (on a listener that is not in the set
\* the call changes nothing).
Unsubscribe(l) ==
    /\ l \in listeners
    /\ Commit(unsubscribe(cur, l), [name |-> "unsubscribe", id |-> l, was |-> "absent"])

SubNext ==
    \/ Next
    \/ \E l \in Listeners : Subscribe(l)
    \/ \E l \in Listeners : Unsubscribe(l)

\* At most MaxIntake jobs are ever created.
AddWideFiles(files) ==
    /\ nextId + Len(SelectSeq(files, isValidFile)) - 1 <= MaxIntake
    /\ Commit(addFiles(cur, files), Op("addFiles", 0))

IntakeNext ==
    \/ \E files \in WideBatches : AddWideFiles(files)
    \/ \E id \in JobIds : RetryJob(id)
    \/ \E id \in JobIds : RemoveJob(id)
    \/ ClearCompleted
    \/ TimerFires
    \/ \E id \in JobIds : UploadSettles(id)

\* The service when files of every kind are dropped on it.
IntakeSpec == Init /\ [][IntakeNext]_vars

OutcomeSettles(id) ==
    \/ \E response \in WideResponses : UploadResolves(id, response)
    \/ \E error \in WideErrors : UploadRejects(id, error)

OutcomeNext ==
    \/ \E files \in Batches : AddWideFiles(files)
    \/ \E id \in JobIds : RetryJob(id)
    \/ \E id \in JobIds : RemoveJob(id)
    \/ ClearCompleted
    \/ TimerFires
    \/ \E id \in JobIds : OutcomeSettles(id)

\* The service when the endpoint answers and fails in every shape.
OutcomeSpec == Init /\ [][OutcomeNext]_vars

\* The service with its calls and retries counted from the start; at most MaxRetries
\* retryJob calls are made.
AuditInit ==
    /\ InitService
    /\ audit = NoCounts(TRUE)
    /\ heap = NoHeap(FALSE)
    /\ zone = NoZone
    /\ client = NoClient(FALSE)

AuditRetryJob(id) ==
    /\ audit.commands < MaxRetries
    /\ RetryJob(id)

AuditNext ==
    \/ \E files \in Batches : AddWideFiles(files)
    \/ \E id \in JobIds : AuditRetryJob(id)
    \/ \E id \in JobIds : RemoveJob(id)
    \/ ClearCompleted
    \/ TimerFires
    \/ \E id \in JobIds : UploadSettles(id)

AuditSpec == AuditInit /\ [][AuditNext]_vars

\* The service with its memory followed from the start, for MaxHeapSteps tasks.
HeapInit ==
    /\ InitService
    /\ audit = NoCounts(FALSE)
    /\ heap = NoHeap(TRUE)
    /\ zone = NoZone
    /\ client = NoClient(FALSE)

GetQueue ==
    Commit(getQueue(cur), Op("getQueue", 0))

HeapNext ==
    /\ heap.steps < MaxHeapSteps
    /\ \/ \E files \in Batches : AddWideFiles(files)
       \/ \E id \in JobIds : RetryJob(id)
       \/ \E id \in JobIds : RemoveJob(id)
       \/ ClearCompleted
       \/ GetQueue
       \/ \E l \in Listeners : Subscribe(l)
       \/ TimerFires
       \/ \E id \in JobIds : UploadSettles(id)

HeapSpec == HeapInit /\ [][HeapNext]_vars

\* ---- the service driven through a mounted WardrobeUploadZone
Mount ==
    /\ ~zone.mounted
    /\ Commit(cur, [name |-> "mount", id |-> 0, was |-> "absent"])

Unmount ==
    /\ zone.mounted
    /\ Commit(cur, [name |-> "unmount", id |-> 0, was |-> "absent"])

\* React renders the component with its current jobs state.
Render ==
    /\ zone.mounted
    /\ zone.rendered # zone.jobs
    /\ Commit(cur, [name |-> "render", id |-> 0, was |-> "absent"])

\* The timeout of debouncedRefresh expires: onUploadComplete() is called.
RefreshFires ==
    /\ zone.mounted
    /\ zone.timer
    /\ Commit(cur, [name |-> "refresh", id |-> 0, was |-> "absent"])

\* handleFiles: files are dropped or picked (an empty list is ignored).
DropFiles(files) ==
    /\ zone.mounted
    /\ files # <<>>
    /\ nextId + Len(SelectSeq(files, isValidFile)) - 1 <= MaxIntake
    /\ Commit(addFiles(cur, files), [name |-> "dropFiles", id |-> 0, was |-> "absent"])

\* The Remove button of a row: rows are rendered for the jobs that were not completed.
ClickRemove(id) ==
    /\ zone.mounted
    /\ statusOf(zone.rendered, id) \notin {"absent", "completed"}
    /\ Commit(removeJob(cur, id),
              [name |-> "clickRemove", id |-> id, was |-> statusOf(queue, id)])

\* The Retry button of a row: rendered for the jobs that were failed.
ClickRetry(id) ==
    /\ zone.mounted
    /\ statusOf(zone.rendered, id) = "failed"
    /\ Commit(retryJob(cur, id),
              [name |-> "clickRetry", id |-> id, was |-> statusOf(queue, id)])

\* The Clear completed button: rendered when there was a completed job.
ClickClear ==
    /\ zone.mounted
    /\ completedCount(zone.rendered) > 0
    /\ Commit(clearCompleted(cur), [name |-> "clickClear", id |-> 0, was |-> "absent"])

ZoneNext ==
    \/ Mount
    \/ Unmount
    \/ Render
    \/ RefreshFires
    \/ \E files \in Batches : DropFiles(files)
    \/ \E id \in JobIds : ClickRemove(id)
    \/ \E id \in JobIds : ClickRetry(id)
    \/ ClickClear
    \/ TimerFires
    \/ \E id \in JobIds : UploadSettles(id)

ZoneSpec == Init /\ [][ZoneNext]_vars

\* Timers expire, calls settle and React renders.
ZoneFairness ==
    /\ WF_vars(TimerFires)
    /\ WF_vars(RefreshFires)
    /\ WF_vars(Render)
    /\ \A id \in JobIds : WF_vars(UploadSettles(id))

ZoneLiveSpec == ZoneSpec /\ ZoneFairness

\* ---- the API client and its 401 handling
\* The application makes a request through the client.
Send(r) ==
    /\ client.st[r] = "idle"
    /\ client' = [client EXCEPT !.st[r] = "sent"]
    /\ UNCHANGED appVars

\* The request is answered with success.
Answered(r) ==
    /\ client.st[r] = "sent"
    /\ client' = [client EXCEPT !.st[r] = "done"]
    /\ UNCHANGED appVars

\* The request fails with something other than a 401: the handler rejects.
Failed(r) ==
    /\ client.st[r] = "sent"
    /\ client' = [client EXCEPT !.st[r] = "failed"]
    /\ UNCHANGED appVars

\* The request is answered with 401.
Unauthorized(r) ==
    /\ client.st[r] = "sent"
    /\ client' = on401(client, r)
    /\ UNCHANGED appVars

RefreshResolves ==
    /\ client.refresh = "inFlight"
    /\ client' = refreshResolved(client)
    /\ UNCHANGED appVars

RefreshRejects ==
    /\ client.refresh = "inFlight"
    /\ client' = refreshRejected(client)
    /\ UNCHANGED appVars

\* window.location.href = '/login' takes effect: the page is loaded anew, the module
\* state starts over and whatever was pending is gone.
PageLoads ==
    /\ client.navigating
    /\ client' = NoClient(client.hasRefreshToken)
    /\ UNCHANGED appVars

\* A refresh token is put in localStorage (nothing in this client stores the first);
\* not while the page is leaving for /login.
RefreshTokenStored ==
    /\ ~client.hasRefreshToken
    /\ ~client.navigating
    /\ client' = [client EXCEPT !.hasRefreshToken = TRUE]
    /\ UNCHANGED appVars

AuthNext ==
    \/ \E r \in Requests : Send(r)
    \/ \E r \in Requests : Answered(r)
    \/ \E r \in Requests : Failed(r)
    \/ \E r \in Requests : Unauthorized(r)
    \/ RefreshResolves
    \/ RefreshRejects
    \/ PageLoads
    \/ RefreshTokenStored

AuthSpec == Init /\ [][AuthNext]_vars

\* Every request sent is answered, the refresh call settles, and a navigation that was
\* started takes place.
AuthFairness ==
    /\ \A r \in Requests : WF_vars(Answered(r) \/ Failed(r) \/ Unauthorized(r))
    /\ WF_vars(RefreshResolves \/ RefreshRejects)
    /\ WF_vars(PageLoads)

AuthLiveSpec == AuthSpec /\ AuthFairness

\* The service with components subscribing and unsubscribing.
SubSpec == Init /\ [][SubNext]_vars

\* Every issued call settles and the loop's timer keeps firing.
Fairness ==
    /\ WF_vars(TimerFires)
    /\ \A id \in JobIds : WF_vars(UploadSettles(id))

LiveSpec == Init /\ [][Next]_vars /\ Fairness

\* ---------------------------------------------------------------- properties
RECURSIVE SumOver(_, _)
SumOver(f, S) ==
    IF S = {} THEN 0
    ELSE LET x == CHOOSE y \in S : TRUE IN f[x] + SumOver(f, S \ {x})

\* Jobs of a job list that are uploading or processing.
Active(q) == Cardinality({i \in 1..Len(q) : q[i].status \in {"uploading", "processing"}})

InQueue(id) == findIndex(queue, id) # 0
Created == 1..(nextId - 1)

\* C1: in every state, and in every snapshot delivered to subscribers, at most 2 jobs
\* are uploading or processing.
C1_ConcurrencyBound ==
    /\ Active(queue) <= 2
    /\ \A k \in 1..Len(emitted) : Active(emitted[k]) <= 2

\* Two jobs are uploading while a third waits.
C1_Witness ==
    /\ Active(queue) = 2
    /\ hasPendingJobs(queue)

\* C2: the occupied slots are between 0 and 2 and are exactly the upload calls issued
\* and not yet settled; removeJob leaves the slot count as it is.
C2_SlotsAreCallsInFlight ==
    /\ [](activeUploads \in 0..2 /\ activeUploads = SumOver(inFlight, JobIds))
    /\ [][\A id \in JobIds : RemoveJob(id) => activeUploads' = activeUploads]_vars

\* A job was removed while its call was in flight, and both slots are still occupied.
C2_Witness ==
    /\ lastOp.name = "removeJob"
    /\ lastOp.was = "uploading"
    /\ inFlight[lastOp.id] > 0
    /\ ~InQueue(lastOp.id)
    /\ activeUploads = 2

\* C3: the preview handle of a job still in the queue has never been released, and the
\* handle of every job that has left the queue has been released exactly once.
C3_PreviewReleasedOnce ==
    /\ \A i \in 1..Len(queue) : revoked[queue[i].preview] = 0
    /\ \A id \in Created : ~InQueue(id) => revoked[id] = 1
    /\ \A id \in JobIds \ Created : revoked[id] = 0

\* removeJob is called again on a job that already left the queue, while another job
\* has left through clearCompleted.
C3_Witness ==
    /\ lastOp.name = "removeJob"
    /\ lastOp.was = "absent"
    /\ lastOp.id \in Created
    /\ revoked[lastOp.id] = 1
    /\ \E id \in Created \ {lastOp.id} : ~InQueue(id) /\ revoked[id] = 1

\* C4: retryJob on an id that is not in the queue, or on a job that is not failed,
\* leaves the job list as it was.
C4_RetryOfNonFailedIsNoOp ==
    [][\A id \in JobIds :
         RetryJob(id) /\ statusOf(queue, id) # "failed" => queue' = queue]_vars

\* The job retryJob(id) must produce from a failed job.
ResetJob(job) == [job EXCEPT !.status = "pending", !.progress = 0, !.error = Undefined]

\* C5: retryJob on a failed job replaces it, in place, by the same job with status
\* pending, progress 0 and no error (the first snapshot delivered shows exactly that),
\* keeps every id, file and position, and leaves the scheduler running with the job
\* either still pending or picked by the scheduler in the same call.
C5_RetryOfFailedResets ==
    [][\A id \in JobIds :
         RetryJob(id) /\ statusOf(queue, id) = "failed" =>
           LET i == findIndex(queue, id) IN
           /\ Len(emitted') >= 1
           /\ emitted'[1] = [queue EXCEPT ![i] = ResetJob(queue[i])]
           /\ Len(queue') = Len(queue)
           /\ \A j \in 1..Len(queue) :
                 /\ queue'[j].id = queue[j].id
                 /\ queue'[j].file = queue[j].file
                 /\ queue'[j].preview = queue[j].preview
           /\ queue'[i].error = Undefined
           /\ \/ queue'[i] = ResetJob(queue[i]) /\ started' = <<>>
              \/ queue'[i].status = "uploading" /\ started' = <<id>>
           /\ isProcessing']_vars

\* A failed job that is not the first of the queue was retried while the scheduler was
\* idle, so the call started the scheduler, which picked the job.
C5_Witness ==
    /\ lastOp.name = "retryJob"
    /\ lastOp.was = "failed"
    /\ started = <<lastOp.id>>
    /\ findIndex(queue, lastOp.id) > 1
    /\ isProcessing

\* C6: when an upload call settles for a job id that is no longer in the queue, the job
\* list is unchanged and no subscriber is notified.
C6_StaleOutcomeDiscarded ==
    [][\A id \in JobIds :
         UploadSettles(id) /\ statusOf(queue, id) = "absent" =>
           queue' = queue /\ emitted' = <<>>]_vars

\* The call of a removed job settled while other jobs were in the queue.
C6_Witness ==
    /\ lastOp.name \in {"resolved", "rejected"}
    /\ lastOp.was = "absent"
    /\ queue # <<>>

\* The positions (in the queue) of the jobs picked during the last task, in pick order.
StartedAt == [k \in 1..Len(started) |-> findIndex(queue, started[k])]

\* C7: every job the scheduler picks is in the queue with no pending job before it, the
\* picks of one pass go in queue order, and retryJob keeps every job at its position.
C7_FifoStart ==
    /\ [](\A k \in 1..Len(started) :
            /\ StartedAt[k] # 0
            /\ \A j \in 1..(StartedAt[k] - 1) : queue[j].status # "pending"
            /\ \A m \in 1..(k - 1) : StartedAt[m] < StartedAt[k])
    /\ [][\A id \in JobIds :
           RetryJob(id) =>
             /\ Len(queue') = Len(queue)
             /\ \A j \in 1..Len(queue) : queue'[j].id = queue[j].id]_vars

\* The timer's pass picked one job while a job later in the queue stayed pending: the
\* picked job had been retried at its original position.
C7_Witness ==
    /\ lastOp.name = "timer"
    /\ Len(started) = 1
    /\ \E j \in (StartedAt[1] + 1)..Len(queue) : queue[j].status = "pending"

\* C8: when the upload of a job in the queue fails, that job becomes failed, every
\* other job and every other call in flight is untouched, one slot is released and the
\* scheduler loop stays as it was; the loop is active whenever a job is pending or a
\* slot is occupied, and its next pass starts a pending job if a slot is free.
C8_FailureIsContained ==
    /\ [][\A id \in JobIds : \A error \in Errors :
           UploadRejects(id, error) /\ statusOf(queue, id) # "absent" =>
             LET i == findIndex(queue, id) IN
             /\ Len(queue') = Len(queue)
             /\ queue'[i].status = "failed"
             /\ \A j \in 1..Len(queue) : j # i => queue'[j] = queue[j]
             /\ activeUploads' = activeUploads - 1
             /\ \A other \in JobIds \ {id} : inFlight'[other] = inFlight[other]
             /\ isProcessing' = isProcessing]_vars
    /\ []((hasPendingJobs(queue) \/ activeUploads > 0) => isProcessing)
    /\ [][TimerFires /\ hasPendingJobs(queue) /\ activeUploads < 2 => started' # <<>>]_vars

\* One of two uploads failed while the other is still in flight and a third job waits.
C8_Witness ==
    /\ lastOp.name = "rejected"
    /\ lastOp.was = "uploading"
    /\ statusOf(queue, lastOp.id) = "failed"
    /\ Active(queue) = 1
    /\ hasPendingJobs(queue)
    /\ isProcessing

Pending(id) == statusOf(queue, id) = "pending"

\* A call that resolves for a job still in the queue leaves that job completed.
ResolvedMeansCompleted ==
    [][\A id \in JobIds :
         (\E response \in Responses : UploadResolves(id, response))
           /\ statusOf(queue, id) # "absent" => statusOf(queue', id) = "completed"]_vars

\* retryJob is only ever called on failed jobs (the one use the UI makes of it).
RetryOnlyFailed == [](lastOp.name = "retryJob" => lastOp.was = "failed")

RetriesBeforeStop(id) ==
    <>[][~(lastOp'.name = "retryJob" /\ lastOp'.id < id)]_vars

CommandsStop == <>[][lastOp'.name \in {"timer", "resolved", "rejected"}]_vars

\* C10: the loop ends only when no job is pending and no slot is occupied; if commands
\* stop arriving it does end, for good; and a call of addFiles that enqueues a job, or
\* of retryJob on a job of the queue, made while no loop is active starts one.
C10_LoopTerminatesAndRestarts ==
    /\ [][isProcessing /\ ~isProcessing' =>
            ~hasPendingJobs(queue') /\ activeUploads' = 0]_vars
    /\ CommandsStop => <>[](~isProcessing)
    /\ [][\A files \in Batches :
           AddFiles(files) /\ ~isProcessing /\ SelectSeq(files, isValidFile) # <<>> =>
             isProcessing' /\ started' # <<>>]_vars
    /\ [][\A id \in JobIds :
           RetryJob(id) /\ ~isProcessing /\ statusOf(queue, id) # "absent" =>
             isProcessing' /\ started' = <<id>>]_vars

\* The loop ended with jobs left in the queue, and a later retryJob started a new one.
C10_Witness ==
    /\ lastOp.name = "retryJob"
    /\ lastOp.was = "failed"
    /\ started = <<lastOp.id>>
    /\ activeUploads = 1
    /\ isProcessing

\* C11: the number of processQueue invocations inside the loop is 1 while isProcessing
\* is set and 0 otherwise, so never 2, and every occupied slot is one call in flight.
C11_SingleSchedulerLoop ==
    /\ loops = (IF isProcessing THEN 1 ELSE 0)
    /\ activeUploads = SumOver(inFlight, JobIds)

\* addFiles enqueued a job while the loop was asleep with both slots occupied: the call
\* started nothing and there is still one loop.
C11_Witness ==
    /\ lastOp.name = "addFiles"
    /\ hasPendingJobs(queue)
    /\ started = <<>>
    /\ activeUploads = 2
    /\ loops = 1

\* C12: a listener that subscribes is called at once with the current job list; a
\* subscribed listener is called with every snapshot notified during a task, in order;
\* a listener that is not subscribed is not called; calling a handle removes that
\* listener from the set and no other, and subscribing adds that listener and no other.
C12_EverySubscriberGetsEverySnapshot ==
    /\ [](\A l \in Listeners :
            received[l] = IF lastOp.name = "subscribe" /\ lastOp.id = l THEN <<queue>>
                          ELSE IF l \in listeners THEN emitted
                          ELSE <<>>)
    /\ [][\A l \in Listeners :
           /\ Subscribe(l) => listeners' = listeners \cup {l} /\ queue' = queue
           /\ Unsubscribe(l) => listeners' = listeners \ {l} /\ queue' = queue]_vars
    /\ [][lastOp'.name \notin {"subscribe", "unsubscribe"} => listeners' = listeners]_vars

\* An upload resolved while two listeners were subscribed: both were called with the
\* processing snapshot and then the completed one.
C12_Witness ==
    /\ lastOp.name = "resolved"
    /\ listeners = {1, 2}
    /\ Len(received[1]) = 2
    /\ received[1] = received[2]
    /\ received[1][2] = queue

\* C13: every task that changes the job list notifies, and its last notification
\* carries the job list the task leaves; so between tasks the snapshot notified last
\* is the job list, and getStats() gives the counts of that snapshot.
C13_NotifiedSnapshotIsQueue ==
    /\ [](notified = queue /\ getStats(queue) = getStats(notified))
    /\ [][queue' # queue => emitted' # <<>> /\ emitted'[Len(emitted')] = queue']_vars

\* A job that was in the queue has been removed and the one snapshot of the task is
\* the job list without it.
C13_Witness ==
    /\ lastOp.name = "removeJob"
    /\ lastOp.was # "absent"
    /\ emitted = <<queue>>
    /\ notified = queue
    /\ queue # <<>>

\* The job lists getStats() can be called on: the one between tasks and the one at each
\* notification of the last task.
StatsPoints == {queue} \cup {emitted[k] : k \in 1..Len(emitted)}

\* C14: whenever getStats() is called, its four counts add up to the number of jobs
\* and its uploading count is the number of jobs that are uploading or processing.
C14_StatsPartitionQueue ==
    \A q \in StatsPoints :
        /\ getStats(q).pending + getStats(q).uploading
             + getStats(q).completed + getStats(q).failed = Len(q)
        /\ getStats(q).uploading = Active(q)

\* A snapshot with one job processing and another uploading: both are counted.
C14_Witness ==
    \E k \in 1..Len(emitted) :
        /\ \E i \in 1..Len(emitted[k]) : emitted[k][i].status = "processing"
        /\ \E i \in 1..Len(emitted[k]) : emitted[k][i].status = "uploading"
        /\ getStats(emitted[k]).uploading = 2

\* An image of at most 10 MiB.
Accepted(file) ==
    /\ Len(file.type) >= 6
    /\ \A i \in 1..6 : file.type[i] = ImagePrefix[i]
    /\ file.size <= 10485760

\* C15: addFiles appends one new pending job for each file of the batch that is an
\* image of at most 10 MiB, in the order of the batch, and for no other file; every job
\* of every job list holds such a file, and every call started is for such a job.
C15_AcceptsExactlyValidImages ==
    /\ [][\A files \in WideBatches : lastOp'.name = "addFiles" /\ AddWideFiles(files) =>
            LET acc  == SelectSeq(files, Accepted)
                snap == emitted'[1]
            IN /\ Len(snap) = Len(queue) + Len(acc)
               /\ SubSeq(snap, 1, Len(queue)) = queue
               /\ \A k \in 1..Len(acc) :
                     /\ snap[Len(queue) + k].file = acc[k]
                     /\ snap[Len(queue) + k].status = "pending"
                     /\ snap[Len(queue) + k].progress = 0
                     /\ snap[Len(queue) + k].id \notin Created
               /\ Len(queue') = Len(snap)
               /\ \A i \in 1..Len(snap) :
                     queue'[i].id = snap[i].id /\ queue'[i].file = snap[i].file]_vars
    /\ [](\A q \in StatsPoints : \A i \in 1..Len(q) : Accepted(q[i].file))
    /\ [](\A k \in 1..Len(started) :
            \E q \in StatsPoints : \E i \in 1..Len(q) :
                q[i].id = started[k] /\ q[i].status = "uploading" /\ Accepted(q[i].file))

\* addFiles has enqueued an empty image and an image of exactly 10 MiB and their
\* uploads have started.
C15_Witness ==
    /\ lastOp.name = "addFiles"
    /\ Len(started) = 2
    /\ \E i \in 1..Len(queue) : queue[i].file.size = 0
    /\ \E i \in 1..Len(queue) : queue[i].file.size = MaxFileSize

\* C16: clearCompleted() leaves in the queue exactly the jobs that were not completed,
\* as they were and in the order they had, releases the preview handle of each
\* completed job once and of no other job, and touches neither slots nor calls.
C16_ClearCompletedFrame ==
    [][ClearCompleted =>
         /\ queue' = SelectSeq(queue, LAMBDA job : job.status # "completed")
         /\ \A id \in JobIds :
               revoked'[id] = revoked[id]
                   + Cardinality({i \in 1..Len(queue) :
                                    queue[i].preview = id /\ queue[i].status = "completed"})
         /\ \A i \in 1..Len(queue') : revoked'[queue'[i].preview] = 0
         /\ UNCHANGED <<activeUploads, inFlight, isProcessing, nextId>>]_vars

\* A completed job has been cleared while a failed job and an uploading job stay, with
\* their handles unreleased.
C16_Witness ==
    /\ lastOp.name = "clearCompleted"
    /\ lastOp.was = "completed"
    /\ \E i \in 1..Len(queue) : queue[i].status = "failed" /\ revoked[queue[i].preview] = 0
    /\ \E i \in 1..Len(queue) : queue[i].status = "uploading" /\ revoked[queue[i].preview] = 0
    /\ \E id \in Created : ~InQueue(id) /\ revoked[id] = 1

\* The ids of the jobs of a job list.
IdsOf(q) == {q[i].id : i \in 1..Len(q)}

\* C17: a job that is in the queue before a task and not after it was named by a
\* removeJob call or was completed when clearCompleted was called; in every other task
\* each snapshot and the queue afterwards hold all the jobs the queue held before.
C17_JobsLeaveOnlyByRemoveOrClear ==
    [][/\ \A id \in IdsOf(queue) \ IdsOf(queue') :
            \/ lastOp'.name = "removeJob" /\ lastOp'.id = id
            \/ lastOp'.name = "clearCompleted" /\ statusOf(queue, id) = "completed"
       /\ lastOp'.name \notin {"removeJob", "clearCompleted"} =>
            \A k \in 1..Len(emitted') : IdsOf(queue) \subseteq IdsOf(emitted'[k])]_vars

\* The scheduler loop has ended and the completed job and the failed job are still in
\* the queue.
C17_Witness ==
    /\ lastOp.name = "timer"
    /\ ~isProcessing
    /\ \E i \in 1..Len(queue) : queue[i].status = "completed"
    /\ \E i \in 1..Len(queue) : queue[i].status = "failed"

\* C18: in the queue and in every snapshot, a job that carries an error is failed.
C18_ErrorOnlyWhenFailed ==
    \A q \in StatsPoints : \A i \in 1..Len(q) :
        q[i].error # Undefined => q[i].status = "failed"

\* The job lists a task goes through: the queue before it, then each snapshot it
\* notifies (the last one is the queue it leaves).
Trail == <<queue>> \o emitted'

JobOf(q, id) == q[findIndex(q, id)]

\* C19: the progress of every job is an integer from 0 to 100, and from one job list
\* to the next the progress of a job does not go down, unless the task is a retryJob
\* call on that job and the progress becomes 0.
C19_ProgressMonotone ==
    /\ [](\A q \in StatsPoints : \A i \in 1..Len(q) : q[i].progress \in 0..100)
    /\ [][\A k \in 1..(Len(Trail) - 1) :
           \A id \in IdsOf(Trail[k]) \cap IdsOf(Trail[k + 1]) :
               \/ JobOf(Trail[k + 1], id).progress >= JobOf(Trail[k], id).progress
               \/ /\ lastOp'.name = "retryJob"
                  /\ lastOp'.id = id
                  /\ JobOf(Trail[k + 1], id).progress = 0]_vars

\* The transitions of the job state machine other than the retry.
StatusEdges ==
    { <<"pending", "uploading">>, <<"uploading", "processing">>,
      <<"processing", "completed">>, <<"uploading", "failed">> }

\* C20: from one job list to the next the status of a job stays, or moves along
\* pending -> uploading -> processing -> completed or uploading -> failed, or goes
\* from failed to pending in a retryJob call on that job.
C20_StatusStateMachine ==
    [][\A k \in 1..(Len(Trail) - 1) :
         \A id \in IdsOf(Trail[k]) \cap IdsOf(Trail[k + 1]) :
             LET from == JobOf(Trail[k], id).status
                 to   == JobOf(Trail[k + 1], id).status
             IN \/ from = to
                \/ <<from, to>> \in StatusEdges
                \/ /\ from = "failed"
                   /\ to = "pending"
                   /\ lastOp'.name = "retryJob"
                   /\ lastOp'.id = id]_vars

\* C21: when the call of a job that is in the queue resolves, the task notifies two
\* snapshots: the job processing at progress 70 with the id the backend gave (_id, or
\* id when there is no _id), then the job completed at progress 100 with that id; the
\* second is the queue the task leaves, and between tasks no job is processing.
C21_SuccessIsProcessingThenCompleted ==
    /\ [][\A id \in JobIds : \A response \in WideResponses :
           lastOp'.name = "resolved" /\ UploadResolves(id, response)
             /\ statusOf(queue, id) # "absent" =>
               LET given == IF ~response.hasData THEN Undefined
                            ELSE IF response._id # Undefined THEN response._id
                            ELSE response.id
               IN /\ Len(emitted') = 2
                  /\ JobOf(emitted'[1], id).status = "processing"
                  /\ JobOf(emitted'[1], id).progress = 70
                  /\ JobOf(emitted'[1], id).itemId = given
                  /\ JobOf(emitted'[2], id).status = "completed"
                  /\ JobOf(emitted'[2], id).progress = 100
                  /\ JobOf(emitted'[2], id).itemId = given
                  /\ queue' = emitted'[2]]_vars
    /\ [](\A i \in 1..Len(queue) : queue[i].status # "processing")

\* A call was answered with the resource id under id: the task showed the job
\* processing and then completed, both with that id.
C21_Witness ==
    /\ lastOp.name = "resolved"
    /\ lastOp.was = "uploading"
    /\ Len(emitted) = 2
    /\ JobOf(emitted[1], lastOp.id).status = "processing"
    /\ JobOf(emitted[1], lastOp.id).itemId = "itm-b"
    /\ JobOf(queue, lastOp.id).status = "completed"
    /\ JobOf(queue, lastOp.id).itemId = "itm-b"

\* C22: when the call of a job that is in the queue rejects, the job becomes failed at
\* the position it had, and every field of it other than status and error keeps its
\* value (so progress, id, file and preview handle).
C22_FailureKeepsProgress ==
    [][\A id \in JobIds : \A error \in WideErrors :
         lastOp'.name = "rejected" /\ UploadRejects(id, error)
           /\ statusOf(queue, id) # "absent" =>
             LET i == findIndex(queue, id) IN
             /\ findIndex(queue', id) = i
             /\ queue'[i].status = "failed"
             /\ \A f \in DOMAIN queue[i] \ {"status", "error"} : queue'[i][f] = queue[i][f]
             /\ revoked'[queue[i].preview] = 0]_vars

\* An uploading job that is second in the queue has failed and still shows progress 30.
C22_Witness ==
    /\ lastOp.name = "rejected"
    /\ lastOp.was = "uploading"
    /\ findIndex(queue, lastOp.id) = 2
    /\ queue[2].status = "failed"
    /\ queue[2].progress = 30

\* C23: every failed job carries a non-empty error text; the text written when a call
\* rejects is the message of the response body if there is a non-empty one, else the
\* transport error text if there is a non-empty one, else 'Upload failed'.
C23_ErrorTextByPriority ==
    /\ [](\A q \in StatsPoints : \A i \in 1..Len(q) :
            q[i].status = "failed" => q[i].error \notin {Undefined, ""})
    /\ [][\A id \in JobIds : \A error \in WideErrors :
           lastOp'.name = "rejected" /\ UploadRejects(id, error)
             /\ statusOf(queue, id) # "absent" =>
               JobOf(queue', id).error =
                   IF error.responseMessage \notin {Undefined, ""} THEN error.responseMessage
                   ELSE IF error.message \notin {Undefined, ""} THEN error.message
                   ELSE "Upload failed"]_vars

\* One job failed with the message of the response body, another with the fallback.
C23_Witness ==
    /\ \E i \in 1..Len(queue) :
          queue[i].status = "failed" /\ queue[i].error = "Invalid image"
    /\ \E i \in 1..Len(queue) :
          queue[i].status = "failed" /\ queue[i].error = "Upload failed"

\* C26: between tasks, when isProcessing is false no job is pending and no slot is
\* occupied.
C26_IdleMeansNothingToDo ==
    ~isProcessing => ~hasPendingJobs(queue) /\ activeUploads = 0

\* The loop has just ended with three jobs in the queue, none pending and no slot
\* occupied.
C26_Witness ==
    /\ lastOp.name = "timer"
    /\ ~isProcessing
    /\ loops = 0
    /\ Len(queue) = 3
    /\ ~hasPendingJobs(queue)
    /\ activeUploads = 0

\* C27: at most one upload call is in flight for a job id.
C27_OneCallPerJob ==
    \A id \in JobIds : inFlight[id] <= 1

\* C25: when the call of a job that is no longer in the queue rejects, nothing is
\* written to the error log, the job list stays as it was and nobody is notified.
C25_StaleFailureNotLogged ==
    [][lastOp'.name = "rejected" /\ lastOp'.was = "absent" =>
         logged' = <<>> /\ queue' = queue /\ emitted' = <<>>]_vars

\* C24: the upload calls issued for a job are at most 1 plus the retryJob calls made on
\* it while it was failed, and a job that is completed or failed before a task is
\* picked in that task only if the task is a retryJob call on it, made while it was
\* failed.
C24_ManualRetryOnly ==
    /\ [](\A id \in JobIds : audit.calls[id] <= 1 + audit.retries[id])
    /\ [][\A id \in IdsOf(queue) :
           statusOf(queue, id) \in {"completed", "failed"} /\ Occurrences(started', id) > 0 =>
             lastOp'.name = "retryJob" /\ lastOp'.id = id /\ lastOp'.was = "failed"]_vars

\* C28: every array handed out as a snapshot (by notify, subscribe or getQueue) still
\* shows the job list it showed when it was handed out, whatever the service has done
\* since; and the array this.queue points to shows the job list of the service.
C28_SnapshotsAreNeverAltered ==
    /\ \A k \in 1..Len(heap.held) : Deref(heap, heap.held[k].ref) = heap.held[k].seen
    /\ heap.on => Deref(heap, heap.queueRef) = queue

\* A snapshot handed out earlier shows a job uploading that has completed since, and
\* another shows a job that has been removed since.
C28_Witness ==
    /\ heap.on
    /\ \E k \in 1..Len(heap.held) : \E i \in 1..Len(heap.held[k].seen) :
          /\ heap.held[k].seen[i].status = "uploading"
          /\ statusOf(queue, heap.held[k].seen[i].id) = "completed"
    /\ \E k \in 1..Len(heap.held) : \E i \in 1..Len(heap.held[k].seen) :
          statusOf(queue, heap.held[k].seen[i].id) = "absent"

\* C29: while the component is mounted, every task in which a job becomes completed
\* is followed by a call of onUploadComplete (or by the unmounting of the component).
C29_CompletionLeadsToRefresh ==
    (zone.mounted /\ lastOp.name = "resolved" /\ lastOp.was \notin {"absent", "completed"})
        ~> (lastOp.name = "refresh" \/ ~zone.mounted)

\* C30: whenever no refresh call is in flight, isRefreshing is false and failedQueue is
\* empty; and every request that was parked is eventually sent again or rejected.
C30_NoRefreshMeansNothingParked ==
    /\ [](client.refresh = "none" => ~client.isRefreshing /\ client.failedQueue = <<>>)
    /\ \A r \in Requests :
          (client.st[r] = "parked") ~> (client.st[r] \in {"sent", "done", "failed"})

====
